---------------------------- MODULE Spec2Model ----------------------------
(***************************************************************************)
(* Model of the Secure User API: the credential codec of app/auth.py       *)
(* (hash_password, verify_password, _hash_password_raw) and the two user   *)
(* routes of app/main.py over app/crud.py.                                 *)
(*                                                                         *)
(* Text (a Python str) is a sequence of Unicode code points; a bytes       *)
(* object is a sequence of integers in 0..255.  A call that may raise      *)
(* returns a record [exc, val]: exc = "" when it returned val, otherwise   *)
(* the name of the exception it raised.                                    *)
(***************************************************************************)
EXTENDS Integers, Sequences, FiniteSets, TLC

\* ------------------------------------------------------------------------
\* Bounds of the model
\* ------------------------------------------------------------------------

\* Longest password (in code points) the codec harness draws.
MaxPwLen == 2

\* os.urandom outcomes are drawn from the salts of seeds 0..MaxSeed.
MaxSeed == 1

\* Calls of hash_password the codec harness makes in one behaviour.
MaxHashCalls == 2

\* POST /users/ requests one behaviour of the service receives.
MaxPosts == 2

\* ------------------------------------------------------------------------
\* Python values
\* ------------------------------------------------------------------------

Ok(v) == [exc |-> "", val |-> v]

Raise(e, v) == [exc |-> e, val |-> v]

\* The '$' of split("$") and of the f-string, as a code point.
DOLLAR == 36

\* base64's padding character '='.
PAD == 61

MINUS == 45

PLUS == 43

UNDERSCORE == 95

ZERO == 48

\* hash_password's cost parameter.
DEFAULT_ITERATIONS == 100000

\* The number of bytes hash_password asks os.urandom for.
SALT_LEN == 16

\* The length of a SHA-256 digest, which is pbkdf2_hmac's default dklen.
DK_LEN == 32

\* The block size of SHA-256, to which HMAC pads its key.
BLOCK_SIZE == 64

Max2(a, b) == IF a >= b THEN a ELSE b

\* bs followed by zero bytes up to length n (bs cut to n when longer).
ZeroPad(bs, n) == [i \in 1..n |-> IF i <= Len(bs) THEN bs[i] ELSE 0]

\* ------------------------------------------------------------------------
\* str.encode("utf-8")
\* ------------------------------------------------------------------------

utf8_char(cp) ==
    IF cp < 128 THEN <<cp>>
    ELSE IF cp < 2048 THEN <<192 + (cp \div 64), 128 + (cp % 64)>>
    ELSE IF cp < 65536
         THEN <<224 + (cp \div 4096), 128 + ((cp \div 64) % 64), 128 + (cp % 64)>>
    ELSE <<240 + (cp \div 262144), 128 + ((cp \div 4096) % 64),
           128 + ((cp \div 64) % 64), 128 + (cp % 64)>>

RECURSIVE encode_utf8(_)
encode_utf8(s) ==
    IF s = <<>> THEN <<>> ELSE utf8_char(Head(s)) \o encode_utf8(Tail(s))

\* ------------------------------------------------------------------------
\* base64.b64encode and base64.b64decode (binascii.a2b_base64, not strict)
\* ------------------------------------------------------------------------

\* The character of the standard alphabet for the 6-bit value v.
B64Char(v) ==
    IF v < 26 THEN 65 + v
    ELSE IF v < 52 THEN 97 + (v - 26)
    ELSE IF v < 62 THEN 48 + (v - 52)
    ELSE IF v = 62 THEN 43
    ELSE 47

\* The 6-bit value of a character, 64 for a character outside the alphabet.
B64Val(c) ==
    IF c >= 65 /\ c <= 90 THEN c - 65
    ELSE IF c >= 97 /\ c <= 122 THEN c - 97 + 26
    ELSE IF c >= 48 /\ c <= 57 THEN c - 48 + 52
    ELSE IF c = 43 THEN 62
    ELSE IF c = 47 THEN 63
    ELSE 64

RECURSIVE b64encode(_)
b64encode(bs) ==
    IF Len(bs) = 0 THEN <<>>
    ELSE IF Len(bs) = 1
         THEN <<B64Char(bs[1] \div 4), B64Char((bs[1] % 4) * 16), PAD, PAD>>
    ELSE IF Len(bs) = 2
         THEN <<B64Char(bs[1] \div 4),
                B64Char((bs[1] % 4) * 16 + (bs[2] \div 16)),
                B64Char((bs[2] % 16) * 4), PAD>>
    ELSE <<B64Char(bs[1] \div 4),
           B64Char((bs[1] % 4) * 16 + (bs[2] \div 16)),
           B64Char((bs[2] % 16) * 4 + (bs[3] \div 64)),
           B64Char(bs[3] % 64)>>
         \o b64encode(SubSeq(bs, 4, Len(bs)))

\* The decoding loop: characters outside the alphabet are skipped, a run of
\* padding that completes a quad ends the data, and leftover characters of
\* an incomplete quad are an error.
RECURSIVE a2b_base64(_, _, _, _, _, _)
a2b_base64(s, i, quad_pos, leftchar, pads, out) ==
    IF i > Len(s)
    THEN IF quad_pos # 0 THEN Raise("binascii.Error", <<>>) ELSE Ok(out)
    ELSE IF s[i] = PAD
    THEN IF quad_pos >= 2 /\ quad_pos + pads + 1 >= 4
         THEN Ok(out)
         ELSE a2b_base64(s, i + 1, quad_pos, leftchar,
                         IF quad_pos >= 2 THEN pads + 1 ELSE pads, out)
    ELSE IF B64Val(s[i]) >= 64
    THEN a2b_base64(s, i + 1, quad_pos, leftchar, pads, out)
    ELSE LET v == B64Val(s[i]) IN
         CASE quad_pos = 0 -> a2b_base64(s, i + 1, 1, v, 0, out)
           [] quad_pos = 1 ->
                a2b_base64(s, i + 1, 2, v % 16, 0,
                           Append(out, leftchar * 4 + (v \div 16)))
           [] quad_pos = 2 ->
                a2b_base64(s, i + 1, 3, v % 4, 0,
                           Append(out, leftchar * 16 + (v \div 4)))
           [] OTHER ->
                a2b_base64(s, i + 1, 0, 0, 0, Append(out, leftchar * 64 + v))

b64decode(s) == a2b_base64(s, 1, 0, 0, 0, <<>>)

\* ------------------------------------------------------------------------
\* str.split, int(str) and str(int)
\* ------------------------------------------------------------------------

\* The index of the first sep in s at or after i, 0 when there is none.
RECURSIVE find(_, _, _)
find(s, sep, i) ==
    IF i > Len(s) THEN 0 ELSE IF s[i] = sep THEN i ELSE find(s, sep, i + 1)

RECURSIVE split(_, _)
split(s, sep) ==
    LET k == find(s, sep, 1)
    IN  IF k = 0 THEN <<s>>
        ELSE <<SubSeq(s, 1, k - 1)>> \o split(SubSeq(s, k + 1, Len(s)), sep)

\* The white space int() strips from both ends.
IsSpace(c) ==
    c \in (9..13) \cup (28..32) \cup {133, 160, 5760} \cup (8192..8202)
          \cup {8232, 8233, 8239, 8287, 12288}

RECURSIVE lstrip(_)
lstrip(s) == IF s # <<>> /\ IsSpace(Head(s)) THEN lstrip(Tail(s)) ELSE s

RECURSIVE rstrip(_)
rstrip(s) ==
    IF s # <<>> /\ IsSpace(s[Len(s)]) THEN rstrip(SubSeq(s, 1, Len(s) - 1))
    ELSE s

IsDigit(c) == c >= 48 /\ c <= 57

\* Decimal digits, single underscores allowed between two digits.
IsDigitString(s) ==
    /\ s # <<>>
    /\ IsDigit(s[1])
    /\ IsDigit(s[Len(s)])
    /\ \A i \in 1..Len(s) : IsDigit(s[i]) \/ s[i] = UNDERSCORE
    /\ \A i \in 1..(Len(s) - 1) : ~(s[i] = UNDERSCORE /\ s[i + 1] = UNDERSCORE)

RECURSIVE DigitsValue(_, _)
DigitsValue(s, acc) ==
    IF s = <<>> THEN acc
    ELSE IF Head(s) = UNDERSCORE THEN DigitsValue(Tail(s), acc)
    ELSE DigitsValue(Tail(s), acc * 10 + (Head(s) - ZERO))

\* int(s): ValueError unless s is an optionally signed decimal literal.
int(s) ==
    LET t == rstrip(lstrip(s))
        signed == t # <<>> /\ t[1] \in {PLUS, MINUS}
        body == IF signed THEN Tail(t) ELSE t
    IN  IF ~IsDigitString(body) THEN Raise("ValueError", 0)
        ELSE Ok((IF signed /\ t[1] = MINUS THEN -1 ELSE 1) * DigitsValue(body, 0))

RECURSIVE NatToStr(_)
NatToStr(n) ==
    IF n < 10 THEN <<ZERO + n>> ELSE Append(NatToStr(n \div 10), ZERO + (n % 10))

\* str(n), as the f-string formats an int.
str(n) == IF n < 0 THEN <<MINUS>> \o NatToStr(-n) ELSE NatToStr(n)

\* ------------------------------------------------------------------------
\* hashlib.pbkdf2_hmac("sha256", password, salt, iterations)
\* ------------------------------------------------------------------------

\* The key HMAC works with: the password bytes zero-padded to the block
\* size.  (A longer key is first hashed; the model's passwords are shorter.)
hmac_key(password) == ZeroPad(password, Max2(BLOCK_SIZE, Len(password)))

IntToBytes4(n) ==
    <<(n \div 16777216) % 256, (n \div 65536) % 256, (n \div 256) % 256, n % 256>>

\* PBKDF2 itself is not computed: it is taken to be collision-free, a
\* DK_LEN-byte string that determines the HMAC key, the salt and the
\* iteration count it was derived from (for keys whose significant part is
\* at most 10 bytes and salts of at most SALT_LEN bytes).
derive(key, salt, iterations) ==
    IntToBytes4(iterations)
       \o <<Len(salt) % 256>> \o ZeroPad(salt, SALT_LEN)
       \o <<Len(key) % 256>> \o ZeroPad(key, DK_LEN - SALT_LEN - 6)

\* ValueError unless the iteration count is positive.
pbkdf2_hmac(password, salt, iterations) ==
    IF iterations < 1 THEN Raise("ValueError", <<>>)
    ELSE Ok(derive(hmac_key(password), salt, iterations))

\* ------------------------------------------------------------------------
\* app/auth.py
\* ------------------------------------------------------------------------

_hash_password_raw(plain_password, salt, iterations) ==
    pbkdf2_hmac(encode_utf8(plain_password), salt, iterations)

\* What os.urandom(n) may return: the model draws among MaxSeed + 1 of the
\* 256^n byte strings.
urandom(n) ==
    {[i \in 1..n |-> (seed * 151 + i * 37) % 256] : seed \in 0..MaxSeed}

\* hash_password with one salt for every credential.
hash_password_fixed_salt(plain_password, salt) ==
    LET iterations == DEFAULT_ITERATIONS
        fixed == [i \in 1..SALT_LEN |-> 0]
        dk == _hash_password_raw(plain_password, fixed, iterations).val
    IN  str(iterations) \o <<DOLLAR>> \o b64encode(fixed) \o <<DOLLAR>>
            \o b64encode(dk)

\* hash_password writing the derived key before the salt.
hash_password_swapped(plain_password, salt) ==
    LET iterations == DEFAULT_ITERATIONS
        dk == _hash_password_raw(plain_password, salt, iterations).val
    IN  str(iterations) \o <<DOLLAR>> \o b64encode(dk) \o <<DOLLAR>>
            \o b64encode(salt)

\* hash_password, given the salt os.urandom(16) returned to it.
hash_password(plain_password, salt) ==
    LET iterations == DEFAULT_ITERATIONS
        dk == _hash_password_raw(plain_password, salt, iterations).val
        salt_b64 == b64encode(salt)
        dk_b64 == b64encode(dk)
    IN  str(iterations) \o <<DOLLAR>> \o salt_b64 \o <<DOLLAR>> \o dk_b64

\* A comparison that looks at the lengths alone.
compare_digest_lengths(a, b) == Len(a) = Len(b)

\* hmac.compare_digest on two bytes objects.
compare_digest(a, b) == a = b

\* verify_password comparing with the stored field as text, not decoded.
verify_password_undecoded(plain_password, hashed_password) ==
    LET parts == split(hashed_password, DOLLAR) IN
    IF Len(parts) # 3 THEN Ok(FALSE)
    ELSE LET iterations == int(parts[1])
             salt == b64decode(encode_utf8(parts[2]))
         IN  IF iterations.exc # "" \/ salt.exc # "" THEN Ok(FALSE)
             ELSE LET actual_dk ==
                          _hash_password_raw(plain_password, salt.val,
                                             iterations.val)
                  IN  IF actual_dk.exc # "" THEN Raise(actual_dk.exc, FALSE)
                      ELSE Ok(compare_digest(actual_dk.val, encode_utf8(parts[3])))

\* verify_password deriving with the current default iteration count.
verify_password_default_iterations(plain_password, hashed_password) ==
    LET parts == split(hashed_password, DOLLAR) IN
    IF Len(parts) # 3 THEN Ok(FALSE)
    ELSE LET iterations == int(parts[1])
             salt == b64decode(encode_utf8(parts[2]))
             expected_dk == b64decode(encode_utf8(parts[3]))
         IN  IF iterations.exc # "" \/ salt.exc # "" \/ expected_dk.exc # ""
             THEN Ok(FALSE)
             ELSE LET actual_dk ==
                          _hash_password_raw(plain_password, salt.val,
                                             DEFAULT_ITERATIONS)
                  IN  Ok(compare_digest(actual_dk.val, expected_dk.val))

\* verify_password: the try block turns every failure to split, parse or
\* decode into False; the derivation and the comparison are outside it.
verify_password(plain_password, hashed_password) ==
    LET parts == split(hashed_password, DOLLAR) IN
    IF Len(parts) # 3 THEN Ok(FALSE)
    ELSE LET iterations == int(parts[1])
             salt == b64decode(encode_utf8(parts[2]))
             expected_dk == b64decode(encode_utf8(parts[3]))
         IN  IF iterations.exc # "" \/ salt.exc # "" \/ expected_dk.exc # ""
             THEN Ok(FALSE)
             ELSE LET actual_dk ==
                          _hash_password_raw(plain_password, salt.val,
                                             iterations.val)
                  IN  IF actual_dk.exc # "" THEN Raise(actual_dk.exc, FALSE)
                      ELSE Ok(compare_digest(actual_dk.val, expected_dk.val))

\* ------------------------------------------------------------------------
\* Inputs of the codec
\* ------------------------------------------------------------------------

\* Code points passwords are made of: NUL and U+00E9 (two bytes in UTF-8).
PwChars == {0, 233}

RECURSIVE TextsUpTo(_, _)
TextsUpTo(chars, n) ==
    IF n = 0 THEN {<<>>}
    ELSE LET shorter == TextsUpTo(chars, n - 1)
         IN shorter \cup {Append(s, c) : s \in shorter, c \in chars}

Passwords == TextsUpTo(PwChars, MaxPwLen)

\* Iteration counts of stored credentials (older or newer cost parameters).
IterationCounts == {1, 2, DEFAULT_ITERATIONS}

\* What the iterations field of a stored credential may be changed to.
ChangedCounts == IterationCounts \cup {-1, 0, 3}

\* The stored form of a credential for plain, derived with n iterations.
credential(plain, salt, n, field1) ==
    str(field1) \o <<DOLLAR>> \o b64encode(salt) \o <<DOLLAR>>
        \o b64encode(_hash_password_raw(plain, salt, n).val)

\* Every proper prefix of a text.
Truncations(s) == {SubSeq(s, 1, k) : k \in 0..(Len(s) - 1)}

\* Stored strings that are no credential record: empty, wrong number of
\* fields, an iterations field that is no positive integer, base64 that does
\* not decode, and truncated credentials.
MalformedLiterals ==
    { <<>>,
      <<103, 97, 114, 98, 97, 103, 101>>,                   \* garbage
      <<49, 36, 50>>,                                       \* 1$2
      <<110, 111, 116, 97, 110, 117, 109, 98, 101, 114,
        36, 65, 65, 65, 65, 36, 65, 65, 65, 65>>,           \* notanumber$AAAA$AAAA
      <<49, 36, 50, 36, 51, 36, 52>>,                       \* 1$2$3$4
      <<48, 36, 36>>,                                       \* 0$$
      <<45, 49, 36, 36>>,                                   \* -1$$
      <<36, 36>>,                                           \* $$
      <<49, 36, 36>>,                                       \* 1$$
      <<49, 36, 65, 36, 65, 65, 65, 65>>,                   \* 1$A$AAAA
      <<49, 36, 65, 65, 65, 65, 36, 65>>,                   \* 1$AAAA$A
      <<49, 36, 65, 65, 36, 65, 65>>,                       \* 1$AA$AA
      <<32, 49, 32, 36, 65, 65, 61, 61, 36, 65, 65, 61, 61>> \* " 1 $AA==$AA=="
    }

Malformed(plain) ==
    MalformedLiterals
        \cup UNION {Truncations(hash_password(plain, salt)) : salt \in urandom(SALT_LEN)}

\* ------------------------------------------------------------------------
\* Inputs of the service
\* ------------------------------------------------------------------------

\* Who registers: the first two share a username, the last two an email.
Identities ==
    { [username |-> "alice", email |-> "alice@example.com"],
      [username |-> "alice", email |-> "bob@example.com"],
      [username |-> "bob", email |-> "bob@example.com"] }

\* The password every registration submits, and those later tried on the
\* stored credentials.
SubmittedPasswords == {<<233>>}

AttemptedPasswords == {<<233>>, <<>>}

\* The request bodies POST /users/ accepts.
UserCreate ==
    {[username |-> i.username, email |-> i.email, password |-> p] :
        i \in Identities, p \in SubmittedPasswords}

\* The user ids GET /users/{user_id} is asked for.
UserIds == 1..(MaxPosts + 1)

\* ------------------------------------------------------------------------
\* State
\* ------------------------------------------------------------------------

VARIABLES
    users,     \* the users table, in insertion order
    nextId,    \* the next value of the table's id sequence
    inflight,  \* POST /users/ requests whose user is added but not committed
    nposts,    \* POST /users/ requests received
    resp,      \* the response to the latest request handled
    audit,     \* per registered id: the request that registered it, the
               \* password submitted and the string hash_password returned
               \* for it (history, not program state)
    plain,     \* the password the codec harness works with
    hashes,    \* the hash_password calls made on it: [salt, out]
    vp         \* the latest verify_password call and what it returned

vars == <<users, nextId, inflight, nposts, resp, audit, plain, hashes, vp>>

service == <<users, nextId, inflight, nposts, resp, audit>>

NoCall ==
    [kind |-> "none", plain |-> <<>>, stored |-> <<>>, res |-> Ok(FALSE),
     idx |-> 0, salt |-> <<>>, n |-> 0, changed |-> 0]

NoResponse == [route |-> "", user_id |-> 0, status |-> 0, body |-> [detail |-> ""]]

\* The service as started: an empty table, nothing in flight.
Init ==
    /\ users = <<>>
    /\ nextId = 1
    /\ inflight = {}
    /\ nposts = 0
    /\ resp = NoResponse
    /\ audit = <<>>
    /\ plain = <<>>
    /\ hashes = <<>>
    /\ vp = NoCall

\* The codec harness: the same, with the password under test drawn.
CodecInit ==
    /\ users = <<>>
    /\ nextId = 1
    /\ inflight = {}
    /\ nposts = 0
    /\ resp = NoResponse
    /\ audit = <<>>
    /\ plain \in Passwords
    /\ hashes = <<>>
    /\ vp = NoCall

\* ------------------------------------------------------------------------
\* The codec harness: calls of hash_password and verify_password.  A
\* behaviour hashes plain up to MaxHashCalls times and ends with one
\* verify_password call, on one of the strings returned or, when it hashed
\* nothing, on a stored string that comes from elsewhere.
\* ------------------------------------------------------------------------

\* hash_password(plain), drawing a salt.
HashPassword(salt) ==
    /\ Len(hashes) < MaxHashCalls
    /\ vp.kind = "none"
    /\ hashes' = Append(hashes, [salt |-> salt, out |-> hash_password(plain, salt)])
    /\ UNCHANGED <<plain, vp, service>>

\* verify_password(p, h) on the string h an earlier hash_password returned.
VerifyHashed(i, p) ==
    /\ i \in DOMAIN hashes
    /\ vp.kind = "none"
    /\ vp' = [kind |-> "hashed", plain |-> p, stored |-> hashes[i].out,
              res |-> verify_password(p, hashes[i].out),
              idx |-> i, salt |-> hashes[i].salt, n |-> DEFAULT_ITERATIONS,
              changed |-> DEFAULT_ITERATIONS]
    /\ UNCHANGED <<plain, hashes, service>>

\* verify_password(p, s) on a well-formed credential s of plain that was
\* derived with n iterations.
VerifyBuilt(p, salt, n) ==
    /\ hashes = <<>>
    /\ vp.kind = "none"
    /\ LET s == credential(plain, salt, n, n)
       IN vp' = [kind |-> "built", plain |-> p, stored |-> s,
                 res |-> verify_password(p, s),
                 idx |-> 0, salt |-> salt, n |-> n, changed |-> n]
    /\ UNCHANGED <<plain, hashes, service>>

\* verify_password(plain, s) on a credential of plain whose iterations
\* field was changed from n to another count.
VerifyChanged(salt, n, changed) ==
    /\ hashes = <<>>
    /\ vp.kind = "none"
    /\ changed # n
    /\ LET s == credential(plain, salt, n, changed)
       IN vp' = [kind |-> "changed", plain |-> plain, stored |-> s,
                 res |-> verify_password(plain, s),
                 idx |-> 0, salt |-> salt, n |-> n, changed |-> changed]
    /\ UNCHANGED <<plain, hashes, service>>

\* verify_password(plain, s) on a malformed stored string s.
VerifyMalformed(s) ==
    /\ hashes = <<>>
    /\ vp.kind = "none"
    /\ vp' = [kind |-> "malformed", plain |-> plain, stored |-> s,
              res |-> verify_password(plain, s),
              idx |-> 0, salt |-> <<>>, n |-> 0, changed |-> 0]
    /\ UNCHANGED <<plain, hashes, service>>

CodecNext ==
    \/ \E salt \in urandom(SALT_LEN) : HashPassword(salt)
    \/ \E i \in 1..MaxHashCalls, p \in Passwords : VerifyHashed(i, p)
    \/ \E p \in Passwords, salt \in urandom(SALT_LEN), n \in IterationCounts :
          VerifyBuilt(p, salt, n)
    \/ \E salt \in urandom(SALT_LEN), n \in IterationCounts, c \in ChangedCounts :
          VerifyChanged(salt, n, c)
    \/ \E s \in Malformed(plain) : VerifyMalformed(s)

CodecSpec == CodecInit /\ [][CodecNext]_vars

\* ------------------------------------------------------------------------
\* app/crud.py, app/schemas.py and the routes of app/main.py
\* ------------------------------------------------------------------------

\* The unique constraints of the users table: username and email.
UniqueViolation(rows, db_user) ==
    \E i \in DOMAIN rows :
        rows[i].username = db_user.username \/ rows[i].email = db_user.email

\* A user built with the submitted password in place of its hash.
new_user_plain(user_in, hashed) ==
    [username |-> user_in.username, email |-> user_in.email,
     password_hash |-> user_in.password]

\* models.User(username=..., email=..., password_hash=hashed)
new_user(user_in, hashed) ==
    [username |-> user_in.username, email |-> user_in.email,
     password_hash |-> hashed]

\* A create_user whose failed insert overwrites the credential of the row
\* it collides with.
crud_create_user_overwrite(rows, id, db_user) ==
    IF UniqueViolation(rows, db_user)
    THEN [exc |-> "IntegrityError",
          rows |-> [i \in DOMAIN rows |->
                      IF rows[i].username = db_user.username
                           \/ rows[i].email = db_user.email
                      THEN [rows[i] EXCEPT !.password_hash = db_user.password_hash]
                      ELSE rows[i]]]
    ELSE [exc |-> "",
          rows |-> Append(rows, [id |-> id,
                                 username |-> db_user.username,
                                 email |-> db_user.email,
                                 password_hash |-> db_user.password_hash,
                                 created_at |-> id])]

\* db.add(db_user); db.commit(): the insert takes the next id and fails with
\* IntegrityError, leaving the table as it was (db.rollback()), when a
\* unique constraint is violated; otherwise the row is there (db.refresh).
\* created_at is the logical time of the insert.
crud_create_user(rows, id, db_user) ==
    IF UniqueViolation(rows, db_user)
    THEN [exc |-> "IntegrityError", rows |-> rows]
    ELSE [exc |-> "",
          rows |-> Append(rows, [id |-> id,
                                 username |-> db_user.username,
                                 email |-> db_user.email,
                                 password_hash |-> db_user.password_hash,
                                 created_at |-> id])]

\* A response model that serialises every column of the user.
UserRead_all_columns(user) ==
    [id |-> user.id, username |-> user.username, email |-> user.email,
     created_at |-> user.created_at, password_hash |-> user.password_hash]

\* response_model=schemas.UserRead: the fields of UserBase and UserRead.
UserRead(user) ==
    [id |-> user.id, username |-> user.username, email |-> user.email,
     created_at |-> user.created_at]

\* A route that lets IntegrityError through: the framework answers 500.
create_user_uncaught(result) ==
    IF result.exc = "IntegrityError"
    THEN [route |-> "POST /users/", user_id |-> 0, status |-> 500,
          body |-> [detail |-> "Internal Server Error"]]
    ELSE [route |-> "POST /users/", user_id |-> 0, status |-> 201,
          body |-> UserRead(result.rows[Len(result.rows)])]

\* The response of POST /users/ to what crud.create_user did.
create_user(result) ==
    IF result.exc = "IntegrityError"
    THEN [route |-> "POST /users/", user_id |-> 0, status |-> 400,
          body |-> [detail |-> "Username or email already exists."]]
    ELSE [route |-> "POST /users/", user_id |-> 0, status |-> 201,
          body |-> UserRead(result.rows[Len(result.rows)])]

\* The response of GET /users/{user_id}.
read_user(rows, user_id) ==
    IF \E i \in DOMAIN rows : rows[i].id = user_id
    THEN [route |-> "GET /users/{user_id}", user_id |-> user_id, status |-> 200,
          body |-> UserRead(rows[CHOOSE i \in DOMAIN rows : rows[i].id = user_id])]
    ELSE [route |-> "GET /users/{user_id}", user_id |-> user_id, status |-> 404,
          body |-> [detail |-> "User not found."]]

\* ------------------------------------------------------------------------
\* The service: requests are handled concurrently, each in its own session;
\* the commit is the one step in which a request touches the table.  Of
\* resp and vp only the outcome of the latest operation is kept: a response
\* clears vp, a verify_password call clears resp.
\* ------------------------------------------------------------------------

\* POST /users/ up to db.add: the password is hashed and the user built.
PostBegin(user_in, salt) ==
    /\ nposts < MaxPosts
    /\ nposts' = nposts + 1
    /\ LET hashed == hash_password(user_in.password, salt)
       IN inflight' = inflight \cup
              {[req |-> nposts + 1, password |-> user_in.password,
                returned |-> hashed, db_user |-> new_user(user_in, hashed)]}
    /\ UNCHANGED <<users, nextId, resp, audit, plain, hashes, vp>>

\* POST /users/ from db.commit to the response.
PostCommit(r) ==
    /\ r \in inflight
    /\ LET result == crud_create_user(users, nextId, r.db_user)
       IN /\ users' = result.rows
          /\ resp' = create_user(result)
          /\ audit' = IF result.exc = ""
                      THEN Append(audit, [id |-> nextId, req |-> r.req,
                                          password |-> r.password,
                                          returned |-> r.returned])
                      ELSE audit
    /\ nextId' = nextId + 1
    /\ inflight' = inflight \ {r}
    /\ vp' = NoCall
    /\ UNCHANGED <<nposts, plain, hashes>>

\* GET /users/{user_id}
ReadUser(user_id) ==
    /\ resp' = read_user(users, user_id)
    /\ vp' = NoCall
    /\ UNCHANGED <<users, nextId, inflight, nposts, audit, plain, hashes>>

\* verify_password(p, user.password_hash) on a stored user.
VerifyStored(i, p) ==
    /\ i \in DOMAIN users
    /\ vp' = [kind |-> "stored", plain |-> p, stored |-> users[i].password_hash,
              res |-> verify_password(p, users[i].password_hash),
              idx |-> users[i].id, salt |-> <<>>, n |-> 0, changed |-> 0]
    /\ resp' = NoResponse
    /\ UNCHANGED <<users, nextId, inflight, nposts, audit, plain, hashes>>

Next ==
    \/ \E user_in \in UserCreate, salt \in urandom(SALT_LEN) :
          PostBegin(user_in, salt)
    \/ \E r \in inflight : PostCommit(r)
    \/ \E user_id \in UserIds : ReadUser(user_id)
    \/ \E i \in 1..MaxPosts, p \in AttemptedPasswords : VerifyStored(i, p)

Spec == Init /\ [][Next]_vars

\* ------------------------------------------------------------------------
\* Properties of the codec (checked under CodecSpec)
\* ------------------------------------------------------------------------

\* bs without its trailing zero bytes.
RECURSIVE StripTrailingNul(_)
StripTrailingNul(bs) ==
    IF bs # <<>> /\ bs[Len(bs)] = 0
    THEN StripTrailingNul(SubSeq(bs, 1, Len(bs) - 1))
    ELSE bs

\* Two passwords whose UTF-8 bytes differ at most in trailing NUL bytes.
SameUpToTrailingNul(p, q) ==
    StripTrailingNul(encode_utf8(p)) = StripTrailingNul(encode_utf8(q))

\* C1 (round trip): verify_password(p, hash_password(p)) returns True, for
\* every password p, the empty one included, and every salt drawn.
C1_RoundTrip ==
    (vp.kind = "hashed" /\ vp.plain = plain) => vp.res = Ok(TRUE)

\* The empty password, hashed twice and verified against the second string.
C1_Witness ==
    /\ vp.kind = "hashed"
    /\ plain = <<>>
    /\ vp.plain = plain
    /\ vp.idx = 2
    /\ vp.res = Ok(TRUE)

\* C2 as stated (negative): for all passwords p1 # p2,
\* verify_password(p2, hash_password(p1)) returns False.
C2_Negative ==
    (vp.kind = "hashed" /\ vp.plain # plain) => vp.res = Ok(FALSE)

\* C2 as amended: verify_password(p2, hash_password(p1)) returns True when
\* p1 and p2 give HMAC the same key, which they do when their UTF-8 bytes
\* differ only in trailing NUL bytes, and False for every other pair.
C2_NegativeUpToHmacKey ==
    vp.kind = "hashed" => vp.res = Ok(SameUpToTrailingNul(vp.plain, plain))

\* A wrong password that shares no HMAC key with the right one is refused.
C2_Witness ==
    /\ vp.kind = "hashed"
    /\ plain = <<233>>
    /\ vp.plain = <<233, 233>>
    /\ vp.res = Ok(FALSE)

\* C3 (fail closed): verify_password(p, s) returns False, and raises
\* nothing, for every malformed stored string s.
C3_FailClosed ==
    vp.kind = "malformed" => vp.res = Ok(FALSE)

\* C7 as stated (salt uniqueness): two hash_password calls on the same
\* password return two different strings, and both verify against it.
C7_SaltNeverReused ==
    /\ \A i \in DOMAIN hashes : \A j \in DOMAIN hashes :
          i # j => hashes[i].out # hashes[j].out
    /\ (vp.kind = "hashed" /\ vp.plain = plain) => vp.res = Ok(TRUE)

\* C7 as amended: two hash_password calls on the same password return
\* different strings exactly when they drew different salts, and every
\* string returned verifies against the password.
C7_DistinctSaltsDistinctStrings ==
    /\ \A i \in DOMAIN hashes : \A j \in DOMAIN hashes :
          (hashes[i].out = hashes[j].out) <=> (hashes[i].salt = hashes[j].salt)
    /\ (vp.kind = "hashed" /\ vp.plain = plain) => vp.res = Ok(TRUE)

\* Two calls that drew different salts; the first string verifies.
C7_Witness ==
    /\ Len(hashes) >= 2
    /\ hashes[1].salt # hashes[2].salt
    /\ hashes[1].out # hashes[2].out
    /\ vp.kind = "hashed"
    /\ vp.idx = 1
    /\ vp.plain = plain
    /\ vp.res = Ok(TRUE)

IsBase64Text(s) == \A i \in 1..Len(s) : B64Val(s[i]) < 64 \/ s[i] = PAD

Occurrences(s, c) == Cardinality({i \in 1..Len(s) : s[i] = c})

\* C8 (format stability): hash_password(p) has exactly two '$' and three
\* non-empty fields; the first parses as the positive integer 100000; the
\* second and third are base64 text without '$' that decodes to the 16-byte
\* salt and to a 32-byte key.  (Looked at in the states the calls return
\* in; the strings are not touched afterwards.)
C8_FormatStability ==
    vp.kind = "none" =>
        \A i \in DOMAIN hashes :
            LET out == hashes[i].out
                parts == split(out, DOLLAR)
            IN  /\ Occurrences(out, DOLLAR) = 2
                /\ Len(parts) = 3
                /\ \A k \in 1..3 : parts[k] # <<>>
                /\ int(parts[1]) = Ok(100000)
                /\ IsBase64Text(parts[2])
                /\ IsBase64Text(parts[3])
                /\ b64decode(parts[2]) = Ok(hashes[i].salt)
                /\ Len(hashes[i].salt) = 16
                /\ b64decode(parts[3]).exc = ""
                /\ Len(b64decode(parts[3]).val) = 32

\* hash_password has returned for a password with a NUL in it.
C8_Witness ==
    /\ vp.kind = "none"
    /\ Len(hashes) = MaxHashCalls
    /\ plain = <<233, 0>>

UsersUnique ==
    \A i \in DOMAIN users : \A j \in DOMAIN users :
        i # j => /\ users[i].username # users[j].username
                 /\ users[i].email # users[j].email

\* The step in which the in-flight request r commits.
Commits(r) == r \in inflight /\ inflight' = inflight \ {r}

\* C4 (duplicates): whatever the order and interleaving of the POST
\* /users/ requests, no two stored users share a username or an email, and
\* a request whose username or email is stored when it commits is answered
\* 400 "Username or email already exists." and leaves the table as it was.
C4_DuplicatesRejected ==
    /\ []UsersUnique
    /\ [][\A r \in inflight :
             (Commits(r) /\ UniqueViolation(users, r.db_user)) =>
                 /\ resp'.status = 400
                 /\ resp'.body = [detail |-> "Username or email already exists."]
                 /\ users' = users]_vars

\* The first request was just refused: the second, which began after it,
\* committed before it and is the stored user.
C4_Witness ==
    /\ resp.status = 400
    /\ Len(users) = 1
    /\ audit[1].req = 2
    /\ nextId = 3

\* C5 (stored verbatim, never the plain text): every stored password_hash
\* is the string hash_password returned in that user's registration, and is
\* not the password submitted.
C5_StoredVerbatim ==
    /\ Len(audit) = Len(users)
    /\ \A i \in DOMAIN users :
          /\ audit[i].id = users[i].id
          /\ users[i].password_hash = audit[i].returned
          /\ users[i].password_hash # audit[i].password

\* Two users registered with the same password.
C5_Witness ==
    /\ Len(users) = 2
    /\ audit[1].password = audit[2].password

\* C6 (no credential material in responses): a 201 or 200 response carries
\* exactly id, username, email and created_at of a stored user, and no
\* response has a password or password_hash field.
C6_NoCredentialInResponses ==
    /\ resp.status \in {0, 200, 201, 400, 404}
    /\ "password" \notin DOMAIN resp.body
    /\ "password_hash" \notin DOMAIN resp.body
    /\ resp.status \in {200, 201} =>
          /\ DOMAIN resp.body = {"id", "username", "email", "created_at"}
          /\ \E i \in DOMAIN users :
                /\ resp.body.id = users[i].id
                /\ resp.body.username = users[i].username
                /\ resp.body.email = users[i].email
                /\ resp.body.created_at = users[i].created_at

\* The second user was just created and answered 201.
C6_Witness ==
    /\ resp.status = 201
    /\ Len(users) = 2
    /\ resp.body.id = users[2].id

\* The step GET /users/{user_id} takes.
IsReadUserStep ==
    /\ resp'.route = "GET /users/{user_id}"
    /\ nposts' = nposts
    /\ inflight' = inflight

\* C10 (written once): every stored user, its password_hash included, stays
\* as registration wrote it across every later step; GET /users/{user_id}
\* leaves the table unchanged and answers 404 exactly when no user has the
\* id, 200 otherwise.
C10_WrittenOnce ==
    [][/\ \A i \in DOMAIN users :
             i \in DOMAIN users' /\ users'[i] = users[i]
       /\ IsReadUserStep =>
             /\ users' = users
             /\ resp'.status =
                   IF \E i \in DOMAIN users : users[i].id = resp'.user_id
                   THEN 200 ELSE 404]_vars

\* A user outlived a refused POST and was then read.
C10_Witness ==
    /\ Len(users) = 1
    /\ nextId = 3
    /\ resp.route = "GET /users/{user_id}"
    /\ resp.status = 200

=============================================================================
